---- MODULE Spec2Model ----
(***************************************************************************)
(* Model of app.py (Google Maps place scraper): payload acquisition with   *)
(* retry, positional field extraction, recursive image-URL mining, the     *)
(* per-place processing loop and the concurrent download batch.            *)
(*                                                                         *)
(* Python strings are sequences of characters; a character is a TLA+       *)
(* string.  The characters outside ASCII that the model uses are named:    *)
(* "LF" is U+000A, "backtick" is U+0060, "e_acute" is U+00E9,              *)
(* "combining_acute" is U+0301.                                            *)
(***************************************************************************)
EXTENDS Integers, Sequences, FiniteSets, TLC

VARIABLES
    \* ---- find_image_urls_recursively applied to a payload tree (SpecMine)
    data_structure,   \* the tree handed to find_image_urls_recursively
    found_urls_set,   \* the caller's set after the call
    mine_pc,          \* "off" | "build" | "mined"
    \* ---- get_google_maps_images_data: the loop over the places (Spec)
    place_urls_to_process,  \* the list the loop runs over
    loop_pc,          \* "ready" | "in_call" | "pause" | "done" | "aborted"
    loop_i,           \* 1-based position of the loop in the list
    all_places_data,  \* the result list
    call,             \* per place: the frame of extract_images_for_place
    \* ---- main_with_downloads: the download phase (SpecDl)
    extracted_data,   \* the list get_google_maps_images_data returned
    dl_pc,            \* "off" | "place" | "gather" | "done"
    place_idx,        \* 0-based position of the loop of line 409
    download_tasks,   \* the download_image coroutines of the current batch
    fs,               \* the files opened for writing so far
    folders,          \* place_folder_path of every place reached so far
    download_results, \* what asyncio.gather returned for the last batch
    succeeded_count   \* line 427, for the last batch

mineVars == <<data_structure, found_urls_set, mine_pc>>

runVars == <<place_urls_to_process, loop_pc, loop_i, all_places_data, call>>

dlVars == <<extracted_data, dl_pc, place_idx, download_tasks, fs, folders,
           download_results, succeeded_count>>

vars == <<data_structure, found_urls_set, mine_pc,
          place_urls_to_process, loop_pc, loop_i, all_places_data, call,
          extracted_data, dl_pc, place_idx, download_tasks, fs, folders,
          download_results, succeeded_count>>

(***************************************************************************)
(* Bounds of the model.                                                    *)
(***************************************************************************)
NPlaces == 2         \* places in place_urls_to_process
MaxDepth == 2        \* wrapping steps while a tree is built
MaxLeaves == 2       \* leaves appended while a tree is built
DeepLevels == 20     \* extra nesting levels added by Deepen

(***************************************************************************)
(* Characters and Python string operations.                                *)
(***************************************************************************)
LowerChars == {"a","b","c","d","e","f","g","h","i","j","k","l","m","n","o","p","q","r","s","t","u","v","w","x","y","z"}
UpperChars == {"A","B","C","D","E","F","G","H","I","J","K","L","M","N","O","P","Q","R","S","T","U","V","W","X","Y","Z"}
DigitChars == {"0","1","2","3","4","5","6","7","8","9"}
DigitSeq == <<"0","1","2","3","4","5","6","7","8","9">>
LowerSeq == <<"a","b","c","d","e","f","g","h","i","j","k","l","m","n","o","p","q","r","s","t","u","v","w","x","y","z">>
UpperSeq == <<"A","B","C","D","E","F","G","H","I","J","K","L","M","N","O","P","Q","R","S","T","U","V","W","X","Y","Z">>

\* Code-point order of the characters of the model (str comparison in sorted()).
CodePointOrder ==
    <<"LF"," ","!","\"","#","$","%","&","'","(",")","*","+",",","-",".","/",
      "0","1","2","3","4","5","6","7","8","9",":",";","<","=",">","?","@",
      "A","B","C","D","E","F","G","H","I","J","K","L","M","N","O","P","Q","R",
      "S","T","U","V","W","X","Y","Z","[","\\","]","^","_","backtick",
      "a","b","c","d","e","f","g","h","i","j","k","l","m","n","o","p","q","r",
      "s","t","u","v","w","x","y","z","{","|","}","~","e_acute","combining_acute">>

Ord(c) == CHOOSE i \in 1..Len(CodePointOrder) : CodePointOrder[i] = c

DigitVal(c) == (CHOOSE i \in 1..10 : DigitSeq[i] = c) - 1

Drop(s, n) == SubSeq(s, n + 1, Len(s))

StartsWith(s, p) == Len(p) <= Len(s) /\ SubSeq(s, 1, Len(p)) = p

EndsWith(s, p) == Len(p) <= Len(s) /\ SubSeq(s, Len(s) - Len(p) + 1, Len(s)) = p

\* sub in s
Contains(s, sub) ==
    \E i \in 1..(Len(s) - Len(sub) + 1) : SubSeq(s, i, i + Len(sub) - 1) = sub

\* a < b for Python str
StrLess(a, b) ==
    \E k \in 1..Len(b) :
        /\ \A j \in 1..(k - 1) : j <= Len(a) /\ a[j] = b[j]
        /\ \/ k = Len(a) + 1
           \/ k <= Len(a) /\ Ord(a[k]) < Ord(b[k])

RECURSIVE SortedList(_)
\* sorted(list(S)) for a set of str
SortedList(S) ==
    IF S = {} THEN <<>>
    ELSE LET m == CHOOSE x \in S : \A y \in S \ {x} : StrLess(x, y)
         IN <<m>> \o SortedList(S \ {m})

RECURSIVE IntOfDigits(_, _)
\* int(digits), accumulated left to right
IntOfDigits(ds, acc) ==
    IF ds = <<>> THEN acc
    ELSE IntOfDigits(Tail(ds), acc * 10 + DigitVal(Head(ds)))

(***************************************************************************)
(* JSON-like values: the payload tree.                                     *)
(***************************************************************************)
Null == [type |-> "null"]
Bool(b) == [type |-> "bool", b |-> b]
Num(n) == [type |-> "num", n |-> n]
Str(s) == [type |-> "str", s |-> s]
List(items) == [type |-> "list", items |-> items]
Dict(keys, vals) == [type |-> "dict", keys |-> keys, vals |-> vals]

\* bool(x) of a Python value
Truthy(d) ==
    CASE d.type = "null" -> FALSE
      [] d.type = "bool" -> d.b
      [] d.type = "num" -> d.n # 0
      [] d.type = "str" -> d.s # <<>>
      [] d.type = "list" -> d.items # <<>>
      [] d.type = "dict" -> d.keys # <<>>

WhitespaceChars == {" ", "LF"}

RECURSIVE LStripChars(_, _)
\* s.lstrip(chars)
LStripChars(s, chars) ==
    IF s # <<>> /\ Head(s) \in chars THEN LStripChars(Tail(s), chars) ELSE s

RECURSIVE RStripChars(_, _)
\* s.rstrip(chars)
RStripChars(s, chars) ==
    IF s # <<>> /\ s[Len(s)] \in chars
    THEN RStripChars(SubSeq(s, 1, Len(s) - 1), chars)
    ELSE s

\* s.strip()
Strip(s) == RStripChars(LStripChars(s, WhitespaceChars), WhitespaceChars)

RECURSIVE DigitsOf(_)
\* the decimal digits of n >= 0
DigitsOf(n) ==
    IF n < 10 THEN <<DigitSeq[n + 1]>>
    ELSE DigitsOf(n \div 10) \o <<DigitSeq[(n % 10) + 1]>>

\* str(n) for an int
IntStr(n) == IF n < 0 THEN <<"-">> \o DigitsOf(0 - n) ELSE DigitsOf(n)

RECURSIVE EscapeRepr(_, _)
\* the body of repr(s): backslash and LF escaped, the quote q escaped
EscapeRepr(s, q) ==
    IF \A k \in 1..Len(s) : s[k] \notin {"\\", "LF", q} THEN s
    ELSE LET c == Head(s)
         IN (IF c = "\\" THEN <<"\\", "\\">>
             ELSE IF c = "LF" THEN <<"\\", "n">>
             ELSE IF c = q THEN <<"\\", q>>
             ELSE <<c>>) \o EscapeRepr(Tail(s), q)

\* repr(s) of a str: double quotes only when s holds ' and no "
StrRepr(s) ==
    LET hasSingle == \E i \in 1..Len(s) : s[i] = "'"
        hasDouble == \E i \in 1..Len(s) : s[i] = "\""
    IN IF hasSingle /\ ~hasDouble
       THEN <<"\"">> \o EscapeRepr(s, "none") \o <<"\"">>
       ELSE <<"'">> \o EscapeRepr(s, "'") \o <<"'">>

RECURSIVE PyRepr(_)
RECURSIVE ReprItems(_)
RECURSIVE ReprPairs(_, _)

\* ", ".join(repr(x) for x in items)
ReprItems(items) ==
    IF items = <<>> THEN <<>>
    ELSE PyRepr(Head(items))
         \o (IF Len(items) > 1 THEN <<",", " ">> ELSE <<>>)
         \o ReprItems(Tail(items))

\* ", ".join(repr(k) + ": " + repr(v))
ReprPairs(keys, vals) ==
    IF keys = <<>> THEN <<>>
    ELSE StrRepr(Head(keys)) \o <<":", " ">> \o PyRepr(Head(vals))
         \o (IF Len(keys) > 1 THEN <<",", " ">> ELSE <<>>)
         \o ReprPairs(Tail(keys), Tail(vals))

\* repr(x)
PyRepr(d) ==
    CASE d.type = "null" -> <<"N","o","n","e">>
      [] d.type = "bool" -> IF d.b THEN <<"T","r","u","e">> ELSE <<"F","a","l","s","e">>
      [] d.type = "num" -> IntStr(d.n)
      [] d.type = "str" -> StrRepr(d.s)
      [] d.type = "list" -> <<"[">> \o ReprItems(d.items) \o <<"]">>
      [] d.type = "dict" -> <<"{">> \o ReprPairs(d.keys, d.vals) \o <<"}">>

\* str(x)
PyStr(d) == IF d.type = "str" THEN d.s ELSE PyRepr(d)

RECURSIVE JoinCommaSpace(_)
\* ", ".join(parts)
JoinCommaSpace(parts) ==
    IF parts = <<>> THEN <<>>
    ELSE IF Len(parts) = 1 THEN Head(parts)
    ELSE Head(parts) \o <<",", " ">> \o JoinCommaSpace(Tail(parts))

(***************************************************************************)
(* json.loads on the JSON the model uses: null, true, false, integers,     *)
(* strings with the escapes \\ \" \/ \n, arrays and objects.  A parse      *)
(* result is [ok, val, pos]: pos is the index after the value.             *)
(***************************************************************************)
ParseFail == [ok |-> FALSE, val |-> Null, pos |-> 0]
ParseOk(v, p) == [ok |-> TRUE, val |-> v, pos |-> p]

RECURSIVE SkipWs(_, _)
SkipWs(s, i) ==
    IF i <= Len(s) /\ s[i] \in {" ", "LF"} THEN SkipWs(s, i + 1) ELSE i

LitAt(s, i, lit) == i + Len(lit) - 1 <= Len(s) /\ SubSeq(s, i, i + Len(lit) - 1) = lit

RECURSIVE ParseDigits(_, _, _)
\* the digits from i on: [n, pos]
ParseDigits(s, i, acc) ==
    IF i <= Len(s) /\ s[i] \in DigitChars
    THEN ParseDigits(s, i + 1, acc * 10 + DigitVal(s[i]))
    ELSE [n |-> acc, pos |-> i]

RECURSIVE Unescape(_)
\* the characters a string body with escapes stands for: [ok, s]
Unescape(body) ==
    IF body = <<>> THEN [ok |-> TRUE, s |-> <<>>]
    ELSE IF Head(body) = "\\"
         THEN IF Len(body) < 2 \/ body[2] \notin {"\\", "\"", "/", "n"}
              THEN [ok |-> FALSE, s |-> <<>>]
              ELSE LET r == Unescape(Drop(body, 2))
                   IN [ok |-> r.ok,
                       s |-> <<IF body[2] = "n" THEN "LF" ELSE body[2]>> \o r.s]
    ELSE LET r == Unescape(Tail(body))
         IN [ok |-> r.ok, s |-> <<Head(body)>> \o r.s]

\* the number of backslashes that end right before position j
BackslashRun(s, j) ==
    IF j = 1 \/ s[j - 1] # "\\" THEN 0
    ELSE LET others == {p \in 1..(j - 1) : s[p] # "\\"}
         IN IF others = {} THEN j - 1
            ELSE j - 1 - (CHOOSE p \in others : \A q \in others : q <= p)

\* the characters of a string from i on, up to the closing quote: the first
\* quote that no backslash escapes
ParseStringBody(s, i) ==
    LET closing == {j \in i..Len(s) : s[j] = "\"" /\ BackslashRun(s, j) % 2 = 0}
    IN IF closing = {} THEN ParseFail
       ELSE LET end == CHOOSE j \in closing : \A k \in closing : j <= k
                body == SubSeq(s, i, end - 1)
            IN IF \E k \in 1..Len(body) : body[k] = "LF" THEN ParseFail
               ELSE IF \A k \in 1..Len(body) : body[k] # "\\"
                    THEN ParseOk(Str(body), end + 1)
               ELSE LET u == Unescape(body)
                    IN IF u.ok THEN ParseOk(Str(u.s), end + 1) ELSE ParseFail

RECURSIVE ParseValue(_, _)
RECURSIVE ParseArrayItems(_, _, _)
RECURSIVE ParseObjectPairs(_, _, _, _)

\* after "[" or ",": a value, then "," or "]"
ParseArrayItems(s, i, acc) ==
    LET r == ParseValue(s, SkipWs(s, i))
    IN IF ~r.ok THEN ParseFail
       ELSE LET j == SkipWs(s, r.pos)
            IN IF j > Len(s) THEN ParseFail
               ELSE IF s[j] = "," THEN ParseArrayItems(s, j + 1, Append(acc, r.val))
               ELSE IF s[j] = "]" THEN ParseOk(List(Append(acc, r.val)), j + 1)
               ELSE ParseFail

\* after "{" or ",": "key" : value, then "," or "}"; a repeated key keeps its
\* place and takes the later value
ParseObjectPairs(s, i, keys, vals) ==
    LET k0 == SkipWs(s, i)
    IN IF k0 > Len(s) \/ s[k0] # "\"" THEN ParseFail
       ELSE LET k == ParseStringBody(s, k0 + 1)
            IN IF ~k.ok THEN ParseFail
               ELSE LET c == SkipWs(s, k.pos)
                    IN IF c > Len(s) \/ s[c] # ":" THEN ParseFail
                       ELSE LET r == ParseValue(s, SkipWs(s, c + 1))
                            IN IF ~r.ok THEN ParseFail
                               ELSE LET j == SkipWs(s, r.pos)
                                        dup == {n \in 1..Len(keys) : keys[n] = k.val.s}
                                        keys2 == IF dup = {} THEN Append(keys, k.val.s) ELSE keys
                                        vals2 == IF dup = {} THEN Append(vals, r.val)
                                                 ELSE [n \in 1..Len(vals) |->
                                                          IF n \in dup THEN r.val ELSE vals[n]]
                                    IN IF j > Len(s) THEN ParseFail
                                       ELSE IF s[j] = "," THEN ParseObjectPairs(s, j + 1, keys2, vals2)
                                       ELSE IF s[j] = "}" THEN ParseOk(Dict(keys2, vals2), j + 1)
                                       ELSE ParseFail

\* one JSON value starting at i
ParseValue(s, i) ==
    IF i > Len(s) THEN ParseFail
    ELSE IF LitAt(s, i, <<"n","u","l","l">>) THEN ParseOk(Null, i + 4)
    ELSE IF LitAt(s, i, <<"t","r","u","e">>) THEN ParseOk(Bool(TRUE), i + 4)
    ELSE IF LitAt(s, i, <<"f","a","l","s","e">>) THEN ParseOk(Bool(FALSE), i + 5)
    ELSE IF s[i] = "\"" THEN ParseStringBody(s, i + 1)
    ELSE IF s[i] \in DigitChars
         THEN IF s[i] = "0" THEN ParseOk(Num(0), i + 1)
              ELSE LET d == ParseDigits(s, i, 0) IN ParseOk(Num(d.n), d.pos)
    ELSE IF s[i] = "-"
         THEN IF i + 1 <= Len(s) /\ s[i + 1] \in DigitChars
              THEN IF s[i + 1] = "0" THEN ParseOk(Num(0), i + 2)
                   ELSE LET d == ParseDigits(s, i + 1, 0) IN ParseOk(Num(0 - d.n), d.pos)
              ELSE ParseFail
    ELSE IF s[i] = "["
         THEN LET j == SkipWs(s, i + 1)
              IN IF j <= Len(s) /\ s[j] = "]" THEN ParseOk(List(<<>>), j + 1)
                 ELSE ParseArrayItems(s, i + 1, <<>>)
    ELSE IF s[i] = "{"
         THEN LET j == SkipWs(s, i + 1)
              IN IF j <= Len(s) /\ s[j] = "}" THEN ParseOk(Dict(<<>>, <<>>), j + 1)
                 ELSE ParseObjectPairs(s, i + 1, <<>>, <<>>)
    ELSE ParseFail

\* json.loads(s): [ok, val]; ok is FALSE where json.loads raises JSONDecodeError
json_loads(s) ==
    LET r == ParseValue(s, SkipWs(s, 1))
    IN IF r.ok /\ SkipWs(s, r.pos) = Len(s) + 1
       THEN [ok |-> TRUE, val |-> r.val]
       ELSE [ok |-> FALSE, val |-> Null]

RECURSIVE JsonText(_)
RECURSIVE JsonItems(_)
RECURSIVE JsonPairs(_, _)
RECURSIVE JsonEscape(_)

JsonEscape(s) ==
    IF \A k \in 1..Len(s) : s[k] \notin {"\\", "\"", "LF"} THEN s
    ELSE (IF Head(s) \in {"\\", "\""} THEN <<"\\", Head(s)>>
          ELSE IF Head(s) = "LF" THEN <<"\\", "n">>
          ELSE <<Head(s)>>) \o JsonEscape(Tail(s))

JsonItems(items) ==
    IF items = <<>> THEN <<>>
    ELSE JsonText(Head(items)) \o (IF Len(items) > 1 THEN <<",">> ELSE <<>>)
         \o JsonItems(Tail(items))

JsonPairs(keys, vals) ==
    IF keys = <<>> THEN <<>>
    ELSE <<"\"">> \o JsonEscape(Head(keys)) \o <<"\"", ":">> \o JsonText(Head(vals))
         \o (IF Len(keys) > 1 THEN <<",">> ELSE <<>>)
         \o JsonPairs(Tail(keys), Tail(vals))

\* The JSON text the page holds for a value (JSON.stringify).
JsonText(d) ==
    CASE d.type = "null" -> <<"n","u","l","l">>
      [] d.type = "bool" -> IF d.b THEN <<"t","r","u","e">> ELSE <<"f","a","l","s","e">>
      [] d.type = "num" -> IntStr(d.n)
      [] d.type = "str" -> <<"\"">> \o JsonEscape(d.s) \o <<"\"">>
      [] d.type = "list" -> <<"[">> \o JsonItems(d.items) \o <<"]">>
      [] d.type = "dict" -> <<"{">> \o JsonPairs(d.keys, d.vals) \o <<"}">>

(***************************************************************************)
(* IMAGE_HOSTS_REGEX, TINY_IMAGE_PARAM_REGEX and the profile-picture test. *)
(***************************************************************************)
GoogleUserContent == <<".","g","o","o","g","l","e","u","s","e","r","c","o","n","t","e","n","t",".","c","o","m">>
Ggpht == <<".","g","g","p","h","t",".","c","o","m">>
ProfilePicture == <<"/","p","r","o","f","i","l","e","/","p","i","c","t","u","r","e">>
Https == <<"h","t","t","p","s",":">>
Http == <<"h","t","t","p",":">>
SlashSlash == <<"/","/">>

\* [a-zA-Z0-9\-_./=&?%]
UrlSafeChars == LowerChars \cup UpperChars \cup DigitChars \cup {"-","_",".","/","=","&","?","%"}

\* \w
WordChars == LowerChars \cup UpperChars \cup DigitChars \cup {"_","e_acute"}

\* /[a-zA-Z0-9\-_./=&?%]+ matched against the whole of t
SafeTail(t) ==
    /\ Len(t) >= 2
    /\ t[1] = "/"
    /\ \A i \in 2..Len(t) : t[i] \in UrlSafeChars

\* IMAGE_HOSTS_REGEX.fullmatch(s) is not None
IMAGE_HOSTS_REGEX_fullmatch(s) ==
    LET afterScheme == IF StartsWith(s, Https) THEN Drop(s, 6)
                       ELSE IF StartsWith(s, Http) THEN Drop(s, 5)
                       ELSE s
    IN  /\ StartsWith(afterScheme, SlashSlash)
        /\ LET rest == Drop(afterScheme, 2)
               slashes == {i \in 1..Len(rest) : rest[i] = "/"}
           IN  /\ slashes # {}
               /\ LET cut == CHOOSE i \in slashes : \A j \in slashes : i <= j
                      host == SubSeq(rest, 1, cut - 1)
                      tail == Drop(rest, cut - 1)
                  IN  \/ /\ Len(host) = 3 + Len(GoogleUserContent)
                         /\ host[1] = "l" /\ host[2] = "h"
                         /\ host[3] \in {"3","4","5","6"}
                         /\ Drop(host, 3) = GoogleUserContent
                         /\ SafeTail(tail)
                      \/ /\ Len(host) > Len(Ggpht)
                         /\ EndsWith(host, Ggpht)
                         /\ SafeTail(tail)
                      \/ /\ Len(host) > Len(GoogleUserContent)
                         /\ EndsWith(host, GoogleUserContent)
                         /\ StartsWith(tail, ProfilePicture)
                         /\ SafeTail(Drop(tail, Len(ProfilePicture)))

\* TINY_IMAGE_PARAM_REGEX.search(s) is not None
TINY_IMAGE_PARAM_REGEX_search(s) ==
    \E i \in 1..(Len(s) - 3) :
        /\ s[i] \in {"=","&","?"}
        /\ s[i + 1] = "s"
        /\ \/ s[i + 2] = "1" /\ s[i + 3] \in {"6","7","8","9"}
           \/ s[i + 2] \in {"2","3","4","5","6"} /\ s[i + 3] \in DigitChars
        /\ (i + 4 > Len(s) \/ s[i + 4] \notin WordChars)

\* re.search(r"[=/]s(\d+)", s): the positions where a match starts
SizeMatchStarts(s) ==
    {i \in 1..(Len(s) - 2) :
        s[i] \in {"=","/"} /\ s[i + 1] = "s" /\ s[i + 2] \in DigitChars}

\* group(1) of the leftmost match: the longest run of digits
SizeMatchGroup(s) ==
    LET i == CHOOSE a \in SizeMatchStarts(s) : \A b \in SizeMatchStarts(s) : a <= b
        stop == CHOOSE e \in (i + 2)..Len(s) :
                    /\ \A j \in (i + 2)..e : s[j] \in DigitChars
                    /\ (e = Len(s) \/ s[e + 1] \notin DigitChars)
    IN SubSeq(s, i + 2, stop)

\* is_small_sized_profile_pic
is_small_sized_profile_pic(url_to_add) ==
    /\ Contains(url_to_add, ProfilePicture \o <<"/">>)
    /\ SizeMatchStarts(url_to_add) # {}
    /\ IntOfDigits(SizeMatchGroup(url_to_add), 0) < 100

\* if url_to_add.startswith('//'): url_to_add = 'https:' + url_to_add
NormalizeUrl(s) == IF StartsWith(s, SlashSlash) THEN Https \o s ELSE s

\* Mutant: the size filter is left out.
AddIfImage_noTinyFilter(s, acc) ==
    IF IMAGE_HOSTS_REGEX_fullmatch(s) THEN acc \cup {NormalizeUrl(s)} ELSE acc

\* The block run on a str value of a dict (lines 71-83) and on a str item of a
\* list (lines 88-100): the set after it.
AddIfImage(s, acc) ==
    IF IMAGE_HOSTS_REGEX_fullmatch(s)
    THEN LET url_to_add == NormalizeUrl(s)
         IN IF ~TINY_IMAGE_PARAM_REGEX_search(url_to_add)
            THEN IF ~is_small_sized_profile_pic(url_to_add)
                 THEN acc \cup {url_to_add}
                 ELSE acc
            ELSE acc
    ELSE acc

RECURSIVE find_image_urls_recursively(_, _)
RECURSIVE MineDictValues(_, _)
RECURSIVE MineListItems(_, _)
RECURSIVE MineListItems_flat(_, _)

\* for key, value in data_structure.items(): ...
MineDictValues(vals, acc) ==
    IF vals = <<>> THEN acc
    ELSE LET value == Head(vals)
         IN MineDictValues(Tail(vals),
                IF value.type = "str" THEN AddIfImage(value.s, acc)
                ELSE find_image_urls_recursively(value, acc))

\* Mutant: a list item that is not a str is skipped instead of searched.
MineListItems_flat(items, acc) ==
    IF items = <<>> THEN acc
    ELSE LET item == Head(items)
         IN MineListItems_flat(Tail(items),
                IF item.type = "str" THEN AddIfImage(item.s, acc) ELSE acc)

\* for item in data_structure: ...
MineListItems(items, acc) ==
    IF items = <<>> THEN acc
    ELSE LET item == Head(items)
         IN MineListItems(Tail(items),
                IF item.type = "str" THEN AddIfImage(item.s, acc)
                ELSE find_image_urls_recursively(item, acc))

\* The set found_urls_set after find_image_urls_recursively(d, found_urls_set)
\* when it held acc before.
find_image_urls_recursively(d, acc) ==
    IF d.type = "dict" THEN MineDictValues(d.vals, acc)
    ELSE IF d.type = "list" THEN MineListItems(d.items, acc)
    ELSE acc

(***************************************************************************)
(* Sample strings.                                                         *)
(***************************************************************************)
Lh(d) == SlashSlash \o <<"l","h",d>> \o GoogleUserContent
UrlRel == Lh("3") \o <<"/","p","1">>
UrlAbs == Https \o Lh("3") \o <<"/","p","1">>
UrlTiny == Https \o Lh("4") \o <<"/","p","2","=","s","3","2">>
UrlBig == Https \o Lh("5") \o <<"/","p","3","=","s","1","6","0","0","-","k">>
UrlGgpht == Http \o SlashSlash \o <<"a">> \o Ggpht \o <<"/","x",".","p","n","g">>
UrlProfSmall == Https \o SlashSlash \o <<"a">> \o GoogleUserContent \o ProfilePicture \o <<"/","0","/","s","9","0">>
UrlProfBig == Https \o SlashSlash \o <<"a">> \o GoogleUserContent \o ProfilePicture \o <<"/","0","/","s","1","2","0">>
UrlOtherHost == Https \o SlashSlash \o <<"e","x","a","m","p","l","e",".","c","o","m","/","x",".","p","n","g">>
Cafe == <<"C","a","f","e">>
MainSt == <<"1","2"," ","M","a","i","n"," ","S","t">>

(***************************************************************************)
(* SpecMine: find_image_urls_recursively applied to trees built from       *)
(* leaves, lists and dicts.                                                *)
(***************************************************************************)
MineLeaves ==
    {Str(UrlRel), Str(UrlAbs), Str(UrlTiny), Str(UrlProfSmall),
     Str(UrlOtherHost), Num(7)}

RECURSIVE Depth(_)
RECURSIVE MaxDepthOf(_)
MaxDepthOf(nodes) ==
    IF nodes = <<>> THEN 0
    ELSE LET h == Depth(Head(nodes))
             t == MaxDepthOf(Tail(nodes))
         IN IF h > t THEN h ELSE t

Depth(d) ==
    IF d.type = "dict" THEN 1 + MaxDepthOf(d.vals)
    ELSE IF d.type = "list" THEN 1 + MaxDepthOf(d.items)
    ELSE 0

RECURSIVE LeafCount(_)
RECURSIVE LeafCountOf(_)
LeafCountOf(nodes) ==
    IF nodes = <<>> THEN 0 ELSE LeafCount(Head(nodes)) + LeafCountOf(Tail(nodes))

LeafCount(d) ==
    IF d.type = "dict" THEN LeafCountOf(d.vals)
    ELSE IF d.type = "list" THEN LeafCountOf(d.items)
    ELSE 1

RECURSIVE Nest(_, _)
\* d under n more levels, lists and dicts in turn
Nest(n, d) ==
    IF n = 0 THEN d
    ELSE IF n % 2 = 0 THEN Nest(n - 1, List(<<Null, d>>))
    ELSE Nest(n - 1, Dict(<<UrlAbs>>, <<d>>))

MineInit ==
    /\ data_structure \in {List(<<>>), Dict(<<>>, <<>>), Str(UrlAbs), Null}
    /\ found_urls_set = {}
    /\ mine_pc = "build"
    /\ place_urls_to_process = <<>>
    /\ loop_pc = "done"
    /\ loop_i = 0
    /\ all_places_data = <<>>
    /\ call = <<>>
    /\ extracted_data = <<>>
    /\ dl_pc = "off"
    /\ place_idx = 0
    /\ download_tasks = <<>>
    /\ fs = {}
    /\ folders = <<>>
    /\ download_results = <<>>
    /\ succeeded_count = 0

AppendLeaf(leaf) ==
    /\ mine_pc = "build"
    /\ data_structure.type \in {"list", "dict"}
    /\ LeafCount(data_structure) < MaxLeaves
    /\ data_structure' =
          IF data_structure.type = "list"
          THEN List(Append(data_structure.items, leaf))
          ELSE Dict(Append(data_structure.keys, UrlBig \o <<DigitSeq[Len(data_structure.keys) + 1]>>),
                    Append(data_structure.vals, leaf))
    /\ UNCHANGED <<found_urls_set, mine_pc, runVars, dlVars>>

WrapInList ==
    /\ mine_pc = "build"
    /\ Depth(data_structure) < MaxDepth
    /\ data_structure' = List(<<data_structure>>)
    /\ UNCHANGED <<found_urls_set, mine_pc, runVars, dlVars>>

WrapInDict ==
    /\ mine_pc = "build"
    /\ Depth(data_structure) < MaxDepth
    /\ data_structure' = Dict(<<UrlGgpht>>, <<data_structure>>)
    /\ UNCHANGED <<found_urls_set, mine_pc, runVars, dlVars>>

Deepen ==
    /\ mine_pc = "build"
    /\ Depth(data_structure) <= MaxDepth
    /\ data_structure' = Nest(DeepLevels, data_structure)
    /\ UNCHANGED <<found_urls_set, mine_pc, runVars, dlVars>>

\* image_urls_found_recursively = set(); find_image_urls_recursively(obj, set)
RunMine ==
    /\ mine_pc = "build"
    /\ found_urls_set' = find_image_urls_recursively(data_structure, {})
    /\ mine_pc' = "mined"
    /\ UNCHANGED <<data_structure, runVars, dlVars>>

MineNext ==
    \/ \E leaf \in MineLeaves : AppendLeaf(leaf)
    \/ WrapInList
    \/ WrapInDict
    \/ Deepen
    \/ RunMine

SpecMine == MineInit /\ [][MineNext]_vars

(***************************************************************************)
(* C10.                                                                    *)
(***************************************************************************)
Children(d) ==
    IF d.type = "dict" THEN {d.vals[i] : i \in 1..Len(d.vals)}
    ELSE IF d.type = "list" THEN {d.items[i] : i \in 1..Len(d.items)}
    ELSE {}

RECURSIVE Closure(_)
\* S with everything below it
Closure(S) ==
    LET next == S \cup UNION {Children(d) : d \in S}
    IN IF next = S THEN S ELSE Closure(next)

\* every node that is a mapping value or a sequence element at some depth
Descendants(d) == Closure(Children(d))

Accepted(s) ==
    /\ IMAGE_HOSTS_REGEX_fullmatch(s)
    /\ ~TINY_IMAGE_PARAM_REGEX_search(NormalizeUrl(s))
    /\ ~is_small_sized_profile_pic(NormalizeUrl(s))

AcceptedLeaves(d) ==
    {NormalizeUrl(n.s) : n \in {m \in Descendants(d) : m.type = "str" /\ Accepted(m.s)}}

RECURSIVE get_nested_value(_, _, _)
\* get_nested_value(data, path, default); a path step is Num(index) or Str(key)
get_nested_value(data, path, default) ==
    IF path = <<>> THEN data
    ELSE LET key_or_index == Head(path)
         IN IF key_or_index.type = "num"
            THEN IF data.type = "list" /\ 0 <= key_or_index.n /\ key_or_index.n < Len(data.items)
                 THEN get_nested_value(data.items[key_or_index.n + 1], Tail(path), default)
                 ELSE default
            ELSE IF key_or_index.type = "str"
            THEN IF data.type = "dict" /\ \E k \in 1..Len(data.keys) : data.keys[k] = key_or_index.s
                 THEN get_nested_value(
                          data.vals[CHOOSE k \in 1..Len(data.keys) : data.keys[k] = key_or_index.s],
                          Tail(path), default)
                 ELSE default
            ELSE default

DarrayPath == <<Num(1), Num(11), Num(0), Num(0)>>

RECURSIVE AddressParts(_)

\* Mutant: the parts that are None are stringified with the others.
AddressParts_withNone(items) == [k \in 1..Len(items) |-> PyStr(items[k])]

\* [str(part) for part in addr_list if part is not None]
AddressParts(items) ==
    IF items = <<>> THEN <<>>
    ELSE (IF Head(items).type = "null" THEN <<>> ELSE <<PyStr(Head(items))>>)
         \o AddressParts(Tail(items))

\* lines 197-199: the title read from the record block, None when not found
ExtractTitle(darray) ==
    LET title_val == get_nested_value(darray, <<Num(1)>>, Null)
    IN IF Truthy(title_val) /\ title_val.type = "str" THEN Str(Strip(title_val.s)) ELSE Null

\* Mutant: a value at the address offset that is not a list is not used.
ExtractAddress_listOnly(darray, title) ==
    LET addr_list == get_nested_value(darray, <<Num(2)>>, Null)
    IN IF Truthy(addr_list) /\ addr_list.type = "list"
       THEN LET cleaned_addr == Strip(JoinCommaSpace(AddressParts(addr_list.items)))
            IN IF Truthy(title) /\ StartsWith(cleaned_addr, title.s)
               THEN Str(Strip(LStripChars(Drop(cleaned_addr, Len(title.s)), {",", " "})))
               ELSE Str(cleaned_addr)
       ELSE Null

\* lines 201-212: the address read from the record block, given the title
ExtractAddress(darray, title) ==
    LET addr_list == get_nested_value(darray, <<Num(2)>>, Null)
    IN IF Truthy(addr_list) /\ addr_list.type = "list"
       THEN LET cleaned_addr == Strip(JoinCommaSpace(AddressParts(addr_list.items)))
            IN IF Truthy(title) /\ StartsWith(cleaned_addr, title.s)
               THEN Str(Strip(LStripChars(Drop(cleaned_addr, Len(title.s)), {",", " "})))
               ELSE Str(cleaned_addr)
       ELSE IF Truthy(addr_list) THEN Str(Strip(PyStr(addr_list)))
       ELSE Null

\* Mutant: the image search is done only when the record block was found.
ProcessPayload_mineInBlock(json_data_obj, place_data) ==
    IF Truthy(json_data_obj)
    THEN LET darray == get_nested_value(json_data_obj, DarrayPath, Null)
         IN IF Truthy(darray)
            THEN [place_data EXCEPT
                     !.title = ExtractTitle(darray),
                     !.address = ExtractAddress(darray, ExtractTitle(darray)),
                     !.image_urls = SortedList(find_image_urls_recursively(json_data_obj, {}))]
            ELSE place_data
    ELSE place_data

\* lines 190-225: place_data_to_return after the fields and the images have
\* been read from json_data_obj
ProcessPayload(json_data_obj, place_data) ==
    IF Truthy(json_data_obj)
    THEN LET darray == get_nested_value(json_data_obj, DarrayPath, Null)
             withFields ==
                 IF Truthy(darray)
                 THEN [place_data EXCEPT
                          !.title = ExtractTitle(darray),
                          !.address = ExtractAddress(darray, ExtractTitle(darray))]
                 ELSE place_data
         IN [withFields EXCEPT
                !.image_urls = SortedList(find_image_urls_recursively(json_data_obj, {}))]
    ELSE place_data

SecurityPrefix == <<")", "]", "}", "'", "LF">>

\* current_json_string (line 164)
StripPrefix(raw_json_data_str) ==
    IF StartsWith(raw_json_data_str, SecurityPrefix)
    THEN Drop(raw_json_data_str, 4)
    ELSE raw_json_data_str

\* lines 160-175: what one attempt does with the value page.evaluate gave:
\* whether the loop is left, and the two locals after it
AttemptOutcome(evaluated_data, frame) ==
    IF Truthy(evaluated_data)
    THEN IF evaluated_data.type = "str"
         THEN LET parsed == json_loads(StripPrefix(evaluated_data.s))
              IN [break |-> parsed.ok,
                  raw_json_data_str |-> evaluated_data,
                  json_data_obj |-> IF parsed.ok THEN parsed.val ELSE Null]
         ELSE [break |-> TRUE,
               raw_json_data_str |-> frame.raw_json_data_str,
               json_data_obj |-> evaluated_data]
    ELSE [break |-> FALSE,
          raw_json_data_str |-> frame.raw_json_data_str,
          json_data_obj |-> frame.json_data_obj]

\* Mutant: the loop always sleeps before it goes on, also after the last attempt.
SleepsAfter_always(attempt) == TRUE

\* if attempt < 2: ... await asyncio.sleep(3)   (attempt counts from 0)
SleepsAfter(attempt) == attempt < 2

\* range(3)
MaxAttempts == 3

(***************************************************************************)
(* What page.evaluate can give: the payloads and the strings of the model. *)
(***************************************************************************)
Nulls(n) == [k \in 1..n |-> Null]

\* a payload with the record block darray at [1][11][0][0], then more items
Block(darray, extra) ==
    List(<<Null, List(Nulls(11) \o <<List(<<List(<<darray>>)>>)>>)>> \o extra)

PayloadFull ==
    Block(List(<<Null, Str(Cafe), List(<<Str(Cafe), Str(MainSt)>>), Str(UrlRel)>>),
          <<List(<<Str(UrlAbs), Str(UrlTiny)>>), Dict(<<Cafe>>, <<Str(UrlBig)>>)>>)

PayloadNoTitle ==
    Block(List(<<Null, Null, List(<<Str(MainSt), Null, Num(5)>>)>>),
          <<Str(UrlProfSmall), Str(UrlProfBig), List(<<Str(UrlProfBig)>>)>>)

PayloadShortBlock == Block(List(<<Num(7)>>), <<Str(UrlGgpht)>>)

PayloadNoBlock == List(<<Null, List(<<Null>>), List(<<Str(UrlRel), Str(UrlRel)>>)>>)

PayloadWrongType == List(<<Null, Dict(<<Cafe>>, <<Str(UrlBig)>>), Str(UrlOtherHost)>>)

PayloadAddrScalar == Block(List(<<Null, Str(<<" ">> \o Cafe \o <<" ">>), Num(42)>>), <<>>)

PayloadTitleNotStr == Block(List(<<Null, Num(5), List(<<Str(Cafe), Str(MainSt)>>)>>), <<Str(UrlTiny)>>)

CafeDeParis == <<"C","a","f","e_acute"," ","D","e"," ","P","a","r","i","s">>

\* what further record blocks hold at the title offset and the address offset
FieldSamples ==
    {<<Str(CafeDeParis), List(<<Str(CafeDeParis), Str(MainSt)>>)>>,
     <<Str(Cafe), List(<<Str(<<" ">> \o MainSt \o <<" ">>)>>)>>,
     <<Str(Cafe), List(<<Str(Cafe), Str(<<>>), Str(MainSt)>>)>>,
     <<Str(Cafe), List(<<Str(Cafe \o <<"t","e","r","i","a">>), Num(5)>>)>>,
     <<Str(Cafe), List(<<>>)>>,
     <<Null, List(<<Null>>)>>,
     <<Str(Cafe), Num(0)>>,
     <<Str(Cafe), Bool(TRUE)>>,
     <<Null, Str(<<" ">> \o MainSt \o <<" ">>)>>,
     <<Str(Cafe), Dict(<<Cafe>>, <<Num(5)>>)>>}

\* the payloads with these record blocks and nothing else
FieldPayloads == {Block(List(<<Null, p[1], p[2]>>), <<>>) : p \in FieldSamples}

\* the values of evaluated_data (line 158): nothing, a str, or a direct value
EvalResults ==
    {Null,
     Str(<<>>),
     Str(<<"n","u","l","l">>),
     Str(<<"[","]">>),
     Str(SecurityPrefix \o JsonText(PayloadFull)),
     Str(JsonText(PayloadNoTitle)),
     Str(SubSeq(SecurityPrefix, 1, 4) \o JsonText(PayloadShortBlock)),
     Str(JsonText(Str(UrlRel))),
     List(<<>>), PayloadNoBlock, PayloadWrongType, PayloadAddrScalar,
     PayloadTitleNotStr, PayloadShortBlock} \cup FieldPayloads

\* how an awaited page operation ends: it returns, raises PlaywrightTimeoutError,
\* or raises another exception
PageOutcomes == {"ok", "timeout", "error"}

\* https://www.google.com/maps/place/ followed by one letter
PlaceUrl(i) ==
    <<"h","t","t","p","s",":","/","/","w","w","w",".","g","o","o","g","l","e",".","c","o","m","/","m","a","p","s","/","p","l","a","c","e","/">>
        \o <<UpperSeq[i]>>

(***************************************************************************)
(* Spec: get_google_maps_images_data from line 353 on, with                *)
(* extract_images_for_place.                                               *)
(***************************************************************************)
Places == 1..Len(place_urls_to_process)

\* a frame that is not running: before the call and after it
NoFrame(pc) ==
    [pc |-> pc, attempt |-> 0, evals |-> 0, waits |-> 0, responses |-> <<>>,
     evaluated_data |-> Null, raw_json_data_str |-> Null, json_data_obj |-> Null,
     place_data_to_return |-> Null, caught |-> "none"]

\* lines 140-142
NewFrame(place_url) ==
    [NoFrame("goto") EXCEPT
        !.place_data_to_return =
            [title |-> Null, address |-> Null, image_urls |-> <<>>, place_url |-> place_url]]

Init ==
    /\ \E n \in 1..NPlaces : place_urls_to_process = [i \in 1..n |-> PlaceUrl(i)]
    /\ loop_pc = "ready"
    /\ loop_i = 1
    /\ all_places_data = <<>>
    /\ call = [i \in Places |-> NoFrame("idle")]
    /\ data_structure = Null
    /\ found_urls_set = {}
    /\ mine_pc = "off"
    /\ extracted_data = <<>>
    /\ dl_pc = "off"
    /\ place_idx = 0
    /\ download_tasks = <<>>
    /\ fs = {}
    /\ folders = <<>>
    /\ download_results = <<>>
    /\ succeeded_count = 0

\* Mutant: the calls are started without awaiting the one before.
CanVisit_noAwait(i) == loop_pc \in {"ready", "in_call", "pause"} /\ loop_i <= i

\* the for loop reaches place i only after the call for the place before it
\* has returned (line 354 awaits it)
CanVisit(i) == loop_pc = "ready" /\ loop_i = i

\* place_info = await extract_images_for_place(page, place_url, place_index=i)
LoopCall(i) ==
    /\ CanVisit(i)
    /\ call[i].pc = "idle"
    /\ call' = [call EXCEPT ![i] = NewFrame(place_urls_to_process[i])]
    /\ loop_pc' = "in_call"
    /\ loop_i' = i
    /\ UNCHANGED <<place_urls_to_process, all_places_data, mineVars, dlVars>>

\* an exception of kind o reaches the handlers of lines 226-231
ToHandler(i, o) == call' = [call EXCEPT ![i].pc = "handler", ![i].caught = o]

\* await page.goto(place_url, ...)
Goto(i, o) ==
    /\ call[i].pc = "goto"
    /\ IF o = "ok" THEN call' = [call EXCEPT ![i].pc = "wait_h1"] ELSE ToHandler(i, o)
    /\ UNCHANGED <<place_urls_to_process, loop_pc, loop_i, all_places_data, mineVars, dlVars>>

\* await page.wait_for_selector("h1", timeout=20000), lines 148-152
WaitSelector(i, o) ==
    /\ call[i].pc = "wait_h1"
    /\ IF o = "ok" THEN call' = [call EXCEPT ![i].pc = "eval"]
       ELSE IF o = "timeout" THEN call' = [call EXCEPT ![i].pc = "h1_screenshot"]
       ELSE ToHandler(i, o)
    /\ UNCHANGED <<place_urls_to_process, loop_pc, loop_i, all_places_data, mineVars, dlVars>>

\* line 153: the screenshot taken when the h1 element was not found
H1Screenshot(i, o) ==
    /\ call[i].pc = "h1_screenshot"
    /\ IF o = "ok" THEN call' = [call EXCEPT ![i].pc = "eval"] ELSE ToHandler(i, o)
    /\ UNCHANGED <<place_urls_to_process, loop_pc, loop_i, all_places_data, mineVars, dlVars>>

\* one pass of the loop of lines 155-178, up to the sleep or the end of the loop
Evaluate(i, evaluated_data) ==
    /\ call[i].pc = "eval"
    /\ \E out \in {AttemptOutcome(evaluated_data, call[i])} :
       \E g \in {[call[i] EXCEPT !.evals = call[i].evals + 1,
                          !.responses = Append(call[i].responses, evaluated_data),
                          !.evaluated_data = evaluated_data,
                          !.raw_json_data_str = out.raw_json_data_str,
                          !.json_data_obj = out.json_data_obj]} :
          call' = [call EXCEPT ![i] =
              IF out.break THEN [g EXCEPT !.pc = "after_attempts"]
              ELSE IF SleepsAfter(call[i].attempt)
                   THEN [g EXCEPT !.pc = "sleeping", !.waits = call[i].waits + 1]
              ELSE [g EXCEPT !.pc = "after_attempts"]]
    /\ UNCHANGED <<place_urls_to_process, loop_pc, loop_i, all_places_data, mineVars, dlVars>>

\* await page.evaluate(js_expression) raises
EvaluateRaises(i, o) ==
    /\ call[i].pc = "eval"
    /\ o # "ok"
    /\ call' = [call EXCEPT ![i].pc = "handler", ![i].caught = o,
                            ![i].evals = call[i].evals + 1]
    /\ UNCHANGED <<place_urls_to_process, loop_pc, loop_i, all_places_data, mineVars, dlVars>>

\* await asyncio.sleep(3) is over: the next pass, or the end of range(3)
Sleep3(i) ==
    /\ call[i].pc = "sleeping"
    /\ call' = [call EXCEPT
                   ![i].attempt = call[i].attempt + 1,
                   ![i].pc = IF call[i].attempt + 1 < MaxAttempts
                             THEN "eval" ELSE "after_attempts"]
    /\ UNCHANGED <<place_urls_to_process, loop_pc, loop_i, all_places_data, mineVars, dlVars>>

\* lines 180-225: the debug screenshot and files, then the fields and the images
AfterAttempts(i, o) ==
    /\ call[i].pc = "after_attempts"
    /\ IF o = "ok"
       THEN call' = [call EXCEPT
                ![i].pc = "return",
                ![i].place_data_to_return =
                    ProcessPayload(call[i].json_data_obj, call[i].place_data_to_return)]
       ELSE ToHandler(i, o)
    /\ UNCHANGED <<place_urls_to_process, loop_pc, loop_i, all_places_data, mineVars, dlVars>>

\* lines 226-231: the handler logs and takes a screenshot; an exception of that
\* screenshot leaves extract_images_for_place and is caught at lines 361-368,
\* outside the for loop
Handler(i, o) ==
    /\ call[i].pc = "handler"
    /\ IF o = "ok"
       THEN /\ call' = [call EXCEPT ![i].pc = "return"]
            /\ UNCHANGED loop_pc
       ELSE /\ call' = [call EXCEPT ![i] = NoFrame("raised")]
            /\ loop_pc' = "aborted"
    /\ UNCHANGED <<place_urls_to_process, loop_i, all_places_data, mineVars, dlVars>>

\* Mutant: every record is appended.
Significant_always(place_info) == TRUE

\* line 355
Significant(place_info) ==
    \/ Truthy(place_info.title)
    \/ Truthy(place_info.address)
    \/ place_info.image_urls # <<>>

\* line 237 and lines 355-360: the record is returned, appended when it holds
\* something, and the loop pauses before the next place
Return(i) ==
    /\ call[i].pc = "return"
    /\ loop_pc = "in_call"
    /\ all_places_data' =
          IF Significant(call[i].place_data_to_return)
          THEN Append(all_places_data, call[i].place_data_to_return)
          ELSE all_places_data
    /\ call' = [call EXCEPT ![i] = NoFrame("returned")]
    /\ loop_pc' = IF i < Len(place_urls_to_process) THEN "pause" ELSE "done"
    /\ UNCHANGED <<place_urls_to_process, loop_i, mineVars, dlVars>>

\* await asyncio.sleep(1) is over
Pause ==
    /\ loop_pc = "pause"
    /\ loop_pc' = "ready"
    /\ loop_i' = loop_i + 1
    /\ UNCHANGED <<place_urls_to_process, all_places_data, call, mineVars, dlVars>>

Next ==
    \/ \E i \in Places : LoopCall(i)
    \/ \E i \in Places, o \in PageOutcomes : Goto(i, o)
    \/ \E i \in Places, o \in PageOutcomes : WaitSelector(i, o)
    \/ \E i \in Places, o \in PageOutcomes : H1Screenshot(i, o)
    \/ \E i \in Places, r \in EvalResults : Evaluate(i, r)
    \/ \E i \in Places, o \in PageOutcomes : EvaluateRaises(i, o)
    \/ \E i \in Places : Sleep3(i)
    \/ \E i \in Places, o \in PageOutcomes : AfterAttempts(i, o)
    \/ \E i \in Places, o \in PageOutcomes : Handler(i, o)
    \/ \E i \in Places : Return(i)
    \/ Pause

Spec == Init /\ [][Next]_vars

(***************************************************************************)
(* C1, C2: the acquisition loop of lines 155-178.                          *)
(***************************************************************************)
\* a value of page.evaluate that is not empty and, when a str, parses
C1_Stops(r) == Truthy(r) /\ (r.type = "str" => json_loads(StripPrefix(r.s)).ok)

\* a direct structured value, or a str that parses
C1_StopsAsClaimed(r) ==
    \/ r.type \in {"list", "dict"}
    \/ r.type = "str" /\ json_loads(StripPrefix(r.s)).ok

AbsentAbsentValid == <<Null, Null, Str(JsonText(PayloadNoTitle))>>

\* C1: the page script is evaluated at most 3 times; the loop goes on exactly
\* while no attempt gave a non-empty direct value or a non-empty str that
\* parses; 3 seconds are slept once after every attempt but the last, so the
\* acquisition that ends at attempt k has slept k-1 times; absent, absent,
\* valid JSON gives the parsed object after 3 attempts and 2 sleeps.
C1_BoundedRetry ==
    \A i \in Places :
        LET f == call[i]
            earlierGoOn == \A k \in 1..(f.evals - 1) : ~C1_Stops(f.responses[k])
        IN /\ f.evals <= 3
           /\ f.pc = "eval" =>
                 /\ f.evals < 3
                 /\ f.waits = f.evals
                 /\ \A k \in 1..f.evals : ~C1_Stops(f.responses[k])
           /\ f.pc = "sleeping" =>
                 /\ f.evals < 3
                 /\ f.waits = f.evals
                 /\ ~C1_Stops(f.responses[f.evals])
           /\ f.pc = "after_attempts" =>
                 /\ f.evals >= 1
                 /\ Len(f.responses) = f.evals
                 /\ f.waits = f.evals - 1
                 /\ earlierGoOn
                 /\ C1_Stops(f.responses[f.evals]) \/ f.evals = 3
                 /\ f.responses = AbsentAbsentValid =>
                       f.evals = 3 /\ f.waits = 2 /\ f.json_data_obj = PayloadNoTitle

\* absent, absent, valid JSON: 3 attempts, 2 sleeps, the parsed object
C1_Witness ==
    \E i \in Places :
        /\ call[i].pc = "after_attempts"
        /\ call[i].responses = AbsentAbsentValid
        /\ call[i].evals = 3
        /\ call[i].waits = 2
        /\ call[i].json_data_obj = PayloadNoTitle

\* C1 as stated: the loop never goes on to a sleep after an attempt that gave
\* a direct structured value or a str that parses.
C1_StopsAtFirstStructured ==
    \A i \in Places :
        call[i].pc = "sleeping" => ~C1_StopsAsClaimed(call[i].responses[call[i].evals])

\* C2: when the acquisition ends without an exception and with no payload for
\* the field extraction and the image search, the page script was evaluated
\* exactly 3 times.
C2_NoDataOnlyAfterAllAttempts ==
    \A i \in Places :
        call[i].pc = "after_attempts" /\ ~Truthy(call[i].json_data_obj)
            => call[i].evals = 3

(***************************************************************************)
(* C5, C7: the loop over the places.                                       *)
(***************************************************************************)
\* C5: no exception leaves extract_images_for_place, and when the loop over
\* the places has ended every place of the list has been visited and its
\* call has returned.
C5_EveryPlaceProcessed ==
    /\ \A i \in Places : call[i].pc # "raised"
    /\ loop_pc \in {"done", "aborted"} => \A i \in Places : call[i].pc = "returned"

InFlight(i) == call[i].pc \notin {"idle", "returned", "raised"}

\* C7: the call for a place starts only after the calls for all places before
\* it have returned, and at no time are the calls of two places in flight.
C7_Sequential ==
    /\ \A i, j \in Places : i < j /\ call[j].pc # "idle" => call[i].pc = "returned"
    /\ \A i, j \in Places : InFlight(i) /\ InFlight(j) => i = j
    /\ \A i \in Places : InFlight(i) => loop_pc = "in_call" /\ loop_i = i

\* the second place is between two attempts while the first has returned
C7_Witness ==
    /\ Len(place_urls_to_process) >= 2
    /\ call[1].pc = "returned"
    /\ call[2].pc = "sleeping"
    /\ call[2].waits = 2

(***************************************************************************)
(* C8, C9: the record extract_images_for_place returns.                    *)
(***************************************************************************)
\* the records about to be returned, and those already in the result list
ReturnedRecords ==
    {call[i].place_data_to_return : i \in {j \in Places : call[j].pc = "return"}}
        \cup {all_places_data[k] : k \in 1..Len(all_places_data)}

\* C8: the image_urls of every returned record holds no URL twice, only
\* normalized URLs, no URL the size-parameter check flags as tiny, and no
\* profile picture with a size token below 100.
C8_ImageUrlsClean ==
    \A rec \in ReturnedRecords :
        LET urls == rec.image_urls
        IN /\ \A k, l \in 1..Len(urls) : urls[k] = urls[l] => k = l
           /\ \A k \in 1..Len(urls) :
                 /\ NormalizeUrl(urls[k]) = urls[k]
                 /\ ~StartsWith(urls[k], SlashSlash)
                 /\ ~TINY_IMAGE_PARAM_REGEX_search(urls[k])
                 /\ ~is_small_sized_profile_pic(urls[k])

\* the payload holds one URL in both forms, a tiny one and a big one; the
\* record lists the one URL once, and the big one
C8_Witness ==
    \E i \in Places :
        /\ call[i].pc = "return"
        /\ call[i].json_data_obj = PayloadFull
        /\ call[i].place_data_to_return.image_urls = <<UrlAbs, UrlBig>>

\* the element at 0-based index k of a list, Null when there is none
C9_At(d, k) == IF d.type = "list" /\ k < Len(d.items) THEN d.items[k + 1] ELSE Null

\* the record block at [1][11][0][0] of the payload, Null when a step is missing
C9_Block(p) == C9_At(C9_At(C9_At(C9_At(p, 1), 11), 0), 0)

\* C9: for a non-empty payload the call returns without an exception, and in
\* its record image_urls is the sorted list of the accepted URLs of the whole
\* payload, whatever was found of the record block, the title and the address;
\* without a record block title and address stay not found; a title that is
\* missing or not a str stays not found and the address list is still read.
C9_DriftDegradesField ==
    \A i \in Places :
        LET f == call[i]
            rec == f.place_data_to_return
            block == C9_Block(f.json_data_obj)
            title_val == C9_At(block, 1)
            addr_list == C9_At(block, 2)
        IN f.pc = "return" /\ f.caught = "none" /\ Truthy(f.json_data_obj) =>
              /\ rec.image_urls = SortedList(AcceptedLeaves(f.json_data_obj))
              /\ ~Truthy(block) => rec.title = Null /\ rec.address = Null
              /\ title_val.type # "str" => rec.title = Null
              /\ ~Truthy(addr_list) => rec.address = Null
              /\ Truthy(block) /\ Truthy(addr_list) => rec.address # Null
              /\ rec.place_url = place_urls_to_process[i]

\* a record block without a title: the address and the images are there
C9_Witness ==
    \E i \in Places :
        /\ call[i].pc = "return"
        /\ call[i].json_data_obj = PayloadNoTitle
        /\ call[i].place_data_to_return.title = Null
        /\ call[i].place_data_to_return.address # Null
        /\ call[i].place_data_to_return.image_urls = <<UrlProfBig>>

\* no record block at all: the images are still there
C9_WitnessNoBlock ==
    \E i \in Places :
        /\ call[i].pc = "return"
        /\ call[i].json_data_obj = PayloadNoBlock
        /\ call[i].place_data_to_return.title = Null
        /\ call[i].place_data_to_return.image_urls = <<UrlAbs>>

(***************************************************************************)
(* C11: the security prefix of line 164.                                   *)
(***************************************************************************)
\* the 4 characters  ) ] } '  followed by a JSON text
C11_PrefixedJson(r) ==
    /\ r.type = "str"
    /\ StartsWith(r.s, SubSeq(SecurityPrefix, 1, 4))
    /\ json_loads(Drop(r.s, 4)).ok

\* C11: after an attempt that gave a non-empty str, what was parsed is the str
\* without its first 4 characters when it carries the 4-character prefix and
\* the str itself when it does not; and a str made of the 4-character prefix
\* and a JSON text ends the acquisition on that attempt with the parsed value.
C11_PrefixStrippedThenParsed ==
    \A i \in Places :
        LET f == call[i]
        IN f.pc \in {"sleeping", "after_attempts"} /\ f.evals >= 1
              /\ Len(f.responses) = f.evals /\ f.evaluated_data.type = "str"
              /\ Truthy(f.evaluated_data) =>
              LET r == f.evaluated_data
                  parsed == IF StartsWith(r.s, SubSeq(SecurityPrefix, 1, 4))
                            THEN json_loads(Drop(r.s, 4))
                            ELSE json_loads(r.s)
              IN /\ f.json_data_obj = (IF parsed.ok THEN parsed.val ELSE Null)
                 /\ C11_PrefixedJson(r) => f.pc = "after_attempts"

(***************************************************************************)
(* C12, C13: the address of lines 201-212.                                 *)
(***************************************************************************)
\* the parts of the address list that are not null, each as a str
C12_Parts(addr_list) ==
    LET nonNull == SelectSeq(addr_list.items, LAMBDA x : x.type # "null")
    IN [k \in 1..Len(nonNull) |-> PyStr(nonNull[k])]

\* s without the commas and spaces it begins with
C12_AfterSeparators(s) ==
    LET n == CHOOSE m \in 0..Len(s) :
                 /\ \A k \in 1..m : s[k] \in {",", " "}
                 /\ m < Len(s) => s[m + 1] \notin {",", " "}
    IN Drop(s, n)

\* the frames that returned after the fields were read from a record block
C12_Read(i) ==
    /\ call[i].pc = "return"
    /\ call[i].caught = "none"
    /\ Truthy(call[i].json_data_obj)
    /\ Truthy(C9_Block(call[i].json_data_obj))

\* C12: when the address offset holds a non-empty sequence, the address is
\* the parts that are not null, stringified, joined with ", " and trimmed of
\* the white space around it; when a non-empty title was extracted and the
\* trimmed string begins with it, the title, the commas and spaces after it
\* and the white space around the rest are removed, otherwise the trimmed
\* string is the address; an empty sequence leaves the address not found;
\* parts Café De Paris, 12 Main St with title Café De Paris give 12 Main St.
C12_AddressJoinedTrimmed ==
    \A i \in Places :
        LET rec == call[i].place_data_to_return
            addr_list == C9_At(C9_Block(call[i].json_data_obj), 2)
            joined == Strip(JoinCommaSpace(C12_Parts(addr_list)))
        IN C12_Read(i) /\ addr_list.type = "list" =>
              /\ addr_list.items = <<>> => rec.address = Null
              /\ addr_list.items # <<>> =>
                    /\ rec.address.type = "str"
                    /\ ~Truthy(rec.title) => rec.address.s = joined
                    /\ Truthy(rec.title) /\ ~StartsWith(joined, rec.title.s) =>
                          rec.address.s = joined
                    /\ Truthy(rec.title) /\ StartsWith(joined, rec.title.s) =>
                          rec.address.s =
                              Strip(C12_AfterSeparators(Drop(joined, Len(rec.title.s))))
              /\ addr_list = List(<<Str(CafeDeParis), Str(MainSt)>>)
                    /\ rec.title = Str(CafeDeParis) => rec.address = Str(MainSt)

\* the example: the title is repeated as the first part of the address
C12_Witness ==
    \E i \in Places :
        /\ C12_Read(i)
        /\ C9_At(C9_Block(call[i].json_data_obj), 2)
               = List(<<Str(CafeDeParis), Str(MainSt)>>)
        /\ call[i].place_data_to_return.title = Str(CafeDeParis)
        /\ call[i].place_data_to_return.address = Str(MainSt)

\* C12 as stated: the address is the joined parts, without the title and the
\* separator after it when the joined parts begin with the title, and the
\* joined parts unchanged otherwise.
C12_AddressAsClaimed ==
    \A i \in Places :
        LET rec == call[i].place_data_to_return
            addr_list == C9_At(C9_Block(call[i].json_data_obj), 2)
            joined == JoinCommaSpace(C12_Parts(addr_list))
            rest == Drop(joined, Len(rec.title.s))
        IN C12_Read(i) /\ addr_list.type = "list" /\ addr_list.items # <<>> =>
              rec.address =
                  IF Truthy(rec.title) /\ StartsWith(joined, rec.title.s)
                  THEN Str(IF StartsWith(rest, <<",", " ">>) THEN Drop(rest, 2) ELSE rest)
                  ELSE Str(joined)

\* C13: when the record block is found and the value at its address offset is
\* not a sequence and not empty (a number other than 0, true, a non-empty
\* string or mapping), the address is the string form of that value, trimmed
\* of the white space around it: 42 gives 42, true gives True, a mapping gives
\* its Python form; an empty value (null, 0, false, an empty string or
\* mapping) leaves the address not found; in both cases the title and the
\* images are read as usual.
C13_ScalarAddressCoerced ==
    \A i \in Places :
        LET rec == call[i].place_data_to_return
            block == C9_Block(call[i].json_data_obj)
            addr_val == C9_At(block, 2)
        IN C12_Read(i) /\ addr_val.type # "list" =>
              /\ Truthy(addr_val) =>
                    /\ rec.address.type = "str"
                    /\ rec.address.s = Strip(PyStr(addr_val))
                    /\ addr_val = Num(42) => rec.address.s = <<"4","2">>
                    /\ addr_val = Bool(TRUE) => rec.address.s = <<"T","r","u","e">>
                    /\ addr_val = Str(<<" ">> \o MainSt \o <<" ">>) => rec.address.s = MainSt
                    /\ addr_val = Dict(<<Cafe>>, <<Num(5)>>) =>
                          rec.address.s = <<"{","'">> \o Cafe \o <<"'",":"," ","5","}">>
              /\ ~Truthy(addr_val) => rec.address = Null
              /\ rec.image_urls = SortedList(AcceptedLeaves(call[i].json_data_obj))
              /\ C9_At(block, 1).type = "str" /\ Truthy(C9_At(block, 1)) =>
                    rec.title = Str(Strip(C9_At(block, 1).s))

\* the address offset holds the number 42: the address is the str 42
C13_Witness ==
    \E i \in Places :
        /\ C12_Read(i)
        /\ call[i].json_data_obj = PayloadAddrScalar
        /\ call[i].place_data_to_return.title = Str(Cafe)
        /\ call[i].place_data_to_return.address = Str(<<"4","2">>)

\* C13 as stated: every value at the address offset that is present and not a
\* sequence gives its string form as the address.
C13_AnyScalarCoerced ==
    \A i \in Places :
        LET addr_val == C9_At(C9_Block(call[i].json_data_obj), 2)
        IN C12_Read(i) /\ addr_val.type \notin {"list", "null"} =>
              call[i].place_data_to_return.address = Str(PyStr(addr_val))

(***************************************************************************)
(* C15: the result list all_places_data.                                   *)
(***************************************************************************)
\* a record with a non-empty title, a non-empty address or an image URL
C15_NonEmpty(rec) ==
    \/ rec.title.type = "str" /\ Len(rec.title.s) > 0
    \/ rec.address.type = "str" /\ Len(rec.address.s) > 0
    \/ Len(rec.image_urls) > 0

\* the position in place_urls_to_process of the place of record k
C15_PlaceOf(k) ==
    CHOOSE i \in Places : place_urls_to_process[i] = all_places_data[k].place_url

\* the result list in one state
C15_ListOk ==
    /\ \A k \in 1..Len(all_places_data) :
          /\ C15_NonEmpty(all_places_data[k])
          /\ \E i \in Places :
                /\ place_urls_to_process[i] = all_places_data[k].place_url
                /\ call[i].pc = "returned"
    /\ \A k, l \in 1..Len(all_places_data) : k < l => C15_PlaceOf(k) < C15_PlaceOf(l)
    /\ Len(all_places_data)
          <= Cardinality({i \in Places : call[i].pc = "returned"})

\* the result list over one step
C15_Step ==
    /\ Len(all_places_data) <= Len(all_places_data')
    /\ Len(all_places_data') <= Len(all_places_data) + 1
    /\ \A k \in 1..Len(all_places_data) : all_places_data'[k] = all_places_data[k]
    /\ Len(all_places_data') = Len(all_places_data) + 1 =>
          \E i \in Places :
              /\ call[i].pc = "return"
              /\ call'[i].pc = "returned"
              /\ all_places_data'[Len(all_places_data')] = call[i].place_data_to_return
    /\ \A i \in Places :
          call[i].pc = "return" /\ call'[i].pc = "returned"
              /\ ~C15_NonEmpty(call[i].place_data_to_return) =>
              all_places_data' = all_places_data

\* C15: at all times the result list holds at most one record per place whose
\* call has returned, in the order of the place URLs, and every record has a
\* non-empty title, a non-empty address or at least one image URL; a step
\* adds at most one record, at the end, the record of the call that returns
\* in that step; the record of a call that returns with none of the three is
\* not added; and no step changes or removes a record of the list.
C15_ResultListGrowsBySignificantRecords ==
    []C15_ListOk /\ [][C15_Step]_vars

\* two places: the first returned with nothing and was left out, the second
\* returned with a title and is the only record of the list
C15_Witness ==
    /\ Len(place_urls_to_process) = 2
    /\ call[1].pc = "returned"
    /\ call[2].pc = "returned"
    /\ Len(all_places_data) = 1
    /\ all_places_data[1].place_url = place_urls_to_process[2]
    /\ all_places_data[1].title = Str(Cafe)
    /\ all_places_data[1].image_urls = <<>>

(***************************************************************************)
(* sanitize_filename.                                                     *)
(***************************************************************************)
\* s[:n]
Take(s, n) == SubSeq(s, 1, IF n < Len(s) THEN n ELSE Len(s))

RECURSIVE NFKD(_)
\* unicodedata.normalize('NFKD', name): U+00E9 becomes e followed by U+0301
NFKD(name) ==
    IF name = <<>> THEN <<>>
    ELSE (IF Head(name) = "e_acute" THEN <<"e", "combining_acute">> ELSE <<Head(name)>>)
         \o NFKD(Tail(name))

\* U+00E9 and U+0301 are the characters of the model outside ASCII
IsAscii(c) == c \notin {"e_acute", "combining_acute"}

\* .encode('ascii', 'ignore').decode('ascii')
AsciiIgnore(name) == SelectSeq(name, IsAscii)

NotDropped(c) == c # ""

\* re.sub of every run of characters of chars by rep
SubRuns(s, chars, rep) ==
    SelectSeq([i \in 1..Len(s) |->
                  IF s[i] \in chars
                  THEN IF i > 1 /\ s[i - 1] \in chars THEN "" ELSE rep
                  ELSE s[i]],
              NotDropped)

\* [\s/\\:\*\?"<>\|;,&]
SeparatorChars == {" ", "LF", "/", "\\", ":", "*", "?", "\"", "<", ">", "|", ";", ",", "&"}

\* [\w\-_] on a str of ASCII characters
IsKept(c) == c \in LowerChars \cup UpperChars \cup DigitChars \cup {"_", "-"}

UnknownPlace == <<"u","n","k","n","o","w","n","_","p","l","a","c","e">>

\* lines 40-50
sanitize_filename(name, max_length) ==
    LET n0 == IF name = <<>> \/ Strip(name) = <<>> THEN UnknownPlace ELSE name
        n1 == AsciiIgnore(NFKD(n0))
        n2 == SubRuns(n1, SeparatorChars, "_")
        n3 == SelectSeq(n2, IsKept)
        n4 == SubRuns(n3, {"_"}, "_")
        n5 == SubRuns(n4, {"-"}, "-")
        n6 == RStripChars(LStripChars(n5, {"_", "-"}), {"_", "-"})
        n7 == IF n6 = <<>>
              THEN <<"s","a","n","i","t","i","z","e","d","_">> \o UnknownPlace
              ELSE n6
    IN Take(n7, max_length)

\* the default of max_length
DefaultMaxLength == 200

\* the slice [:30] of line 412
UrlPartLength == 30

MAIN_DOWNLOAD_DIR == <<"d","o","w","n","l","o","a","d","e","d","_","g","o","o","g","l","e","_","m","a","p","s","_","i","m","a","g","e","s">>

\* os.path.join(a, b) for a relative b
PathJoin(a, b) == a \o <<"/">> \o b

\* lines 410-415; idx is place_idx, counted from 0
place_folder_path(place_info, idx) ==
    LET place_title_for_folder ==
            IF Truthy(place_info.title) THEN place_info.title.s
            ELSE UnknownPlace \o <<"_">> \o IntStr(idx + 1) \o <<"_">>
                 \o Take(sanitize_filename(place_info.place_url, DefaultMaxLength), UrlPartLength)
    IN PathJoin(MAIN_DOWNLOAD_DIR, sanitize_filename(place_title_for_folder, DefaultMaxLength))

(***************************************************************************)
(* download_image: the pure steps.                                         *)
(***************************************************************************)
AllIn(s, chars) == \A i \in 1..Len(s) : s[i] \in chars

\* -[wh]\d+ over the whole of r
DashDim(r) ==
    /\ Len(r) >= 3
    /\ r[1] = "-"
    /\ r[2] \in {"w", "h"}
    /\ AllIn(Drop(r, 2), DigitChars)

\* -[a-zA-Z0-9]+ over the whole of r
DashWord(r) ==
    /\ Len(r) >= 2
    /\ r[1] = "-"
    /\ AllIn(Drop(r, 1), LowerChars \cup UpperChars \cup DigitChars)

\* =[swh]\d+(-[wh]\d+)?(-[a-zA-Z0-9]+)?$ matches at position i of url
SizeSuffixAt(url, i) ==
    /\ i + 2 <= Len(url)
    /\ url[i] = "="
    /\ url[i + 1] \in {"s", "w", "h"}
    /\ \E a \in (i + 2)..Len(url) :
          /\ AllIn(SubSeq(url, i + 2, a), DigitChars)
          /\ LET r == Drop(url, a)
             IN \/ r = <<>>
                \/ DashDim(r)
                \/ DashWord(r)
                \/ \E b \in 1..Len(r) : DashDim(Take(r, b)) /\ DashWord(Drop(r, b))

\* line 105: re.sub(r'=[swh]\d+(-[wh]\d+)?(-[a-zA-Z0-9]+)?$', '', url)
url_no_size(url) ==
    LET starts == {i \in 1..Len(url) : SizeSuffixAt(url, i)}
    IN IF starts = {} THEN url
       ELSE Take(url, (CHOOSE i \in starts : \A j \in starts : i <= j) - 1)

\* s.lower()
Lower(s) ==
    [i \in 1..Len(s) |->
        IF s[i] \in UpperChars
        THEN LowerSeq[CHOOSE k \in 1..26 : UpperSeq[k] = s[i]]
        ELSE s[i]]

\* s.split(c)[0]
BeforeFirst(s, c) ==
    LET at == {i \in 1..Len(s) : s[i] = c}
    IN IF at = {} THEN s ELSE Take(s, (CHOOSE i \in at : \A j \in at : i <= j) - 1)

\* s.split(c)[-1]
AfterLast(s, c) ==
    LET at == {i \in 1..Len(s) : s[i] = c}
    IN IF at = {} THEN s ELSE Drop(s, CHOOSE i \in at : \A j \in at : i >= j)

Jpg == <<".","j","p","g">>
Jpeg == <<".","j","p","e","g">>
Png == <<".","p","n","g">>
Gif == <<".","g","i","f">>
Webp == <<".","w","e","b","p">>

\* lines 113-123: the extension, from the Content-Type header of the response
\* (the empty str when there is none) and then from the URL
Extension(content_type_header, url) ==
    LET content_type == Lower(content_type_header)
    IN IF Contains(content_type, Drop(Jpeg, 1)) \/ Contains(content_type, Drop(Jpg, 1)) THEN Jpg
       ELSE IF Contains(content_type, Drop(Png, 1)) THEN Png
       ELSE IF Contains(content_type, Drop(Gif, 1)) THEN Gif
       ELSE IF Contains(content_type, Drop(Webp, 1)) THEN Webp
       ELSE LET url_path_part == AfterLast(BeforeFirst(url, "?"), "/")
                potential_ext == <<".">> \o Lower(AfterLast(url_path_part, "."))
            IN IF Contains(url_path_part, <<".">>) /\ potential_ext \in {Jpg, Jpeg, Png, Gif, Webp}
               THEN potential_ext
               ELSE Jpg

\* f"{image_counter:03d}"
Format03d(image_counter) ==
    LET ds == IntStr(image_counter)
    IN IF Len(ds) >= 3 THEN ds ELSE [i \in 1..(3 - Len(ds)) |-> "0"] \o ds

\* lines 124-125
ImageFilepath(folder_path, image_counter, ext) ==
    PathJoin(folder_path, <<"i","m","a","g","e","_">> \o Format03d(image_counter) \o ext)

(***************************************************************************)
(* SpecDl: the download phase of main_with_downloads (lines 406-431) with  *)
(* the download_image coroutines of one batch running concurrently.        *)
(***************************************************************************)
NEntities == 2       \* entries of extracted_data

\* records as get_google_maps_images_data returns them: the title is None or a
\* stripped str, image_urls is the sorted list of accepted, normalized URLs,
\* and no two records have the same place_url (lines 317, 330)
EntitySamples ==
    {[title |-> Str(Cafe), address |-> Str(MainSt),
      image_urls |-> SortedList({UrlAbs, UrlBig, UrlGgpht}), place_url |-> PlaceUrl(1)],
     [title |-> Str(Cafe), address |-> Null,
      image_urls |-> <<UrlAbs>>, place_url |-> PlaceUrl(2)],
     [title |-> Str(<<"C","a","f","e_acute","!">>), address |-> Str(MainSt),
      image_urls |-> <<UrlProfBig>>, place_url |-> PlaceUrl(3)],
     [title |-> Null, address |-> Str(MainSt),
      image_urls |-> <<UrlGgpht>>, place_url |-> PlaceUrl(4)],
     [title |-> Null, address |-> Str(MainSt),
      image_urls |-> <<>>, place_url |-> PlaceUrl(5)]}

UrlLh6 == Https \o Lh("6") \o <<"/","p","6","=","w","4","0","8","-","h","3","0","6","-","k","-","n","o">>

\* a record with five images
EntityFive ==
    [title |-> Str(MainSt), address |-> Null,
     image_urls |-> SortedList({UrlAbs, UrlBig, UrlGgpht, UrlProfBig, UrlLh6}),
     place_url |-> PlaceUrl(6)]

\* the result lists of the model: up to NEntities of the samples, each at
\* most once, and the record with five images on its own
ResultLists ==
    UNION {{e \in [1..n -> EntitySamples] : \A p, q \in 1..n : e[p] = e[q] => p = q}
              : n \in 1..NEntities}
        \cup {<<EntityFive>>}

\* the Content-Type headers of the model; the empty str stands for no header
ContentTypes ==
    {<<"i","m","a","g","e","/","j","p","e","g">>,
     <<"I","M","A","G","E","/","P","N","G">>,
     <<>>}

\* how session.get and raise_for_status end: a response with a success
\* status, aiohttp.ClientError, asyncio.TimeoutError, or a status >= 400
\* (ClientResponseError)
Responses ==
    {[kind |-> "ok", content_type |-> ct] : ct \in ContentTypes}
        \cup {[kind |-> k, content_type |-> <<>>] : k \in {"client_error", "timeout", "bad_status"}}

\* the coroutine object of line 423, not yet started
NewTask(url, folder_path, image_counter) ==
    [pc |-> "created", url |-> url, folder_path |-> folder_path,
     image_counter |-> image_counter, url_no_size |-> <<>>, filepath |-> <<>>,
     failure |-> "none", result |-> "pending"]

\* Mutant: the number of the file is the rank of the response among the
\* responses of the batch.
SequenceNumber_byResponseOrder(tasks, t) ==
    1 + Cardinality({k \in 1..Len(tasks) : tasks[k].filepath # <<>>})

\* image_counter of line 124: the argument bound at line 423
SequenceNumber(tasks, t) == tasks[t].image_counter

\* Mutant: the exception of one download cancels the downloads of the batch
\* that are not done.
Fail_cancelsSiblings(tasks, t, kind) ==
    [k \in 1..Len(tasks) |->
        IF k = t THEN [tasks[k] EXCEPT !.pc = "done", !.failure = kind, !.result = "False"]
        ELSE IF tasks[k].pc # "done" THEN [tasks[k] EXCEPT !.pc = "done", !.result = "False"]
        ELSE tasks[k]]

\* lines 133-136: the exception is logged and the coroutine returns False
Fail(tasks, t, kind) ==
    [tasks EXCEPT ![t] = [@ EXCEPT !.pc = "done", !.failure = kind, !.result = "False"]]

DlInit ==
    /\ extracted_data \in ResultLists
    /\ dl_pc = "place"
    /\ place_idx = 0
    /\ download_tasks = <<>>
    /\ fs = {}
    /\ folders = <<>>
    /\ download_results = <<>>
    /\ succeeded_count = 0
    /\ data_structure = Null
    /\ found_urls_set = {}
    /\ mine_pc = "off"
    /\ place_urls_to_process = <<>>
    /\ loop_pc = "done"
    /\ loop_i = 0
    /\ all_places_data = <<>>
    /\ call = <<>>

\* the next pass of the loop of line 409, or its end
NextPlace == IF place_idx + 1 < Len(extracted_data) THEN "place" ELSE "done"

\* lines 410-424 (and 429-430): the folder of the place and the coroutines of
\* its batch
StartPlace ==
    /\ dl_pc = "place"
    /\ LET place_info == extracted_data[place_idx + 1]
           path == place_folder_path(place_info, place_idx)
           image_urls_to_dl == place_info.image_urls
       IN /\ folders' = Append(folders, path)
          /\ download_results' = <<>>
          /\ succeeded_count' = 0
          /\ IF image_urls_to_dl # <<>>
             THEN /\ download_tasks' =
                        [img_counter \in 1..Len(image_urls_to_dl) |->
                            NewTask(image_urls_to_dl[img_counter], path, img_counter)]
                  /\ dl_pc' = "gather"
                  /\ UNCHANGED place_idx
             ELSE /\ download_tasks' = <<>>
                  /\ dl_pc' = NextPlace
                  /\ place_idx' = place_idx + 1
    /\ UNCHANGED <<extracted_data, fs, mineVars, runVars>>

\* lines 104-111: the coroutine runs up to the await of session.get
TaskStart(t) ==
    /\ dl_pc = "gather"
    /\ download_tasks[t].pc = "created"
    /\ download_tasks' = [download_tasks EXCEPT
                             ![t].pc = "requesting",
                             ![t].url_no_size = url_no_size(download_tasks[t].url)]
    /\ UNCHANGED <<extracted_data, dl_pc, place_idx, fs, folders,
                   download_results, succeeded_count, mineVars, runVars>>

\* Mutant: the file is opened when the request ends, before raise_for_status
\* and also when session.get raised.
TaskResponse_opensFirst(t, response) ==
    /\ dl_pc = "gather"
    /\ download_tasks[t].pc = "requesting"
    /\ LET task == download_tasks[t]
           ext == Extension(response.content_type, task.url)
           filepath == ImageFilepath(task.folder_path,
                                     SequenceNumber(download_tasks, t), ext)
       IN /\ fs' = fs \cup {[path |-> filepath, place_idx |-> place_idx, position |-> t]}
          /\ IF response.kind = "ok"
             THEN download_tasks' = [download_tasks EXCEPT
                                        ![t].pc = "writing", ![t].filepath = filepath]
             ELSE download_tasks' = Fail(download_tasks, t, response.kind)
    /\ UNCHANGED <<extracted_data, dl_pc, place_idx, folders,
                   download_results, succeeded_count, mineVars, runVars>>

\* lines 111-126: the response is there; on a success status the file is opened
TaskResponse(t, response) ==
    /\ dl_pc = "gather"
    /\ download_tasks[t].pc = "requesting"
    /\ IF response.kind = "ok"
       THEN LET task == download_tasks[t]
                ext == Extension(response.content_type, task.url)
                filepath == ImageFilepath(task.folder_path,
                                          SequenceNumber(download_tasks, t), ext)
            IN /\ download_tasks' = [download_tasks EXCEPT
                                        ![t].pc = "writing", ![t].filepath = filepath]
               /\ fs' = fs \cup {[path |-> filepath, place_idx |-> place_idx, position |-> t]}
       ELSE /\ download_tasks' = Fail(download_tasks, t, response.kind)
            /\ UNCHANGED fs
    /\ UNCHANGED <<extracted_data, dl_pc, place_idx, folders,
                   download_results, succeeded_count, mineVars, runVars>>

\* lines 127-132: the body is read to its end and written, or a read raises
TaskBody(t, o) ==
    /\ dl_pc = "gather"
    /\ download_tasks[t].pc = "writing"
    /\ IF o = "ok"
       THEN download_tasks' = [download_tasks EXCEPT ![t].pc = "done", ![t].result = "True"]
       ELSE download_tasks' = Fail(download_tasks, t, "read_error")
    /\ UNCHANGED <<extracted_data, dl_pc, place_idx, fs, folders,
                   download_results, succeeded_count, mineVars, runVars>>

\* lines 426-428: every coroutine has returned; the results in the order of
\* the tasks, and the count of the successes
Gather ==
    /\ dl_pc = "gather"
    /\ \A t \in 1..Len(download_tasks) : download_tasks[t].pc = "done"
    /\ download_results' =
          [t \in 1..Len(download_tasks) |-> download_tasks[t].result = "True"]
    /\ succeeded_count' =
          Cardinality({t \in 1..Len(download_tasks) : download_tasks[t].result = "True"})
    /\ dl_pc' = NextPlace
    /\ place_idx' = place_idx + 1
    /\ UNCHANGED <<extracted_data, download_tasks, fs, folders, mineVars, runVars>>

DlNext ==
    \/ StartPlace
    \/ \E t \in 1..Len(download_tasks) : TaskStart(t)
    \/ \E t \in 1..Len(download_tasks), response \in Responses : TaskResponse(t, response)
    \/ \E t \in 1..Len(download_tasks), o \in {"ok", "error"} : TaskBody(t, o)
    \/ Gather

SpecDl == DlInit /\ [][DlNext]_vars

(***************************************************************************)
(* C3, C4: one batch of downloads.                                         *)
(***************************************************************************)
Tasks == 1..Len(download_tasks)

\* the batch asyncio.gather has just returned for
BatchGathered == dl_pc \in {"place", "done"} /\ download_tasks # <<>>

\* C3: while a batch runs, a download is ended only by its own response or
\* its own body: one that is not done has no result and no failure, one that
\* is done has failed exactly when its own request or read failed; gather
\* returns only when all n are done, with n outcomes in the order of the
\* tasks, outcome t being a success exactly when download t did not fail, and
\* the success count is n minus the number of failed downloads.
C3_FailuresStayLocal ==
    /\ dl_pc = "gather" =>
          /\ Len(download_tasks) = Len(extracted_data[place_idx + 1].image_urls)
          /\ \A t \in Tasks :
                LET task == download_tasks[t]
                IN /\ task.pc # "done" => task.result = "pending" /\ task.failure = "none"
                   /\ task.pc = "done" =>
                         /\ task.result \in {"True", "False"}
                         /\ task.result = "False" <=> task.failure # "none"
                         /\ task.result = "True" => task.filepath # <<>>
    /\ BatchGathered =>
          /\ \A t \in Tasks : download_tasks[t].pc = "done"
          /\ Len(download_results) = Len(download_tasks)
          /\ Len(download_results) = Len(extracted_data[place_idx].image_urls)
          /\ \A t \in Tasks : download_results[t] <=> download_tasks[t].failure = "none"
          /\ succeeded_count =
                Len(download_tasks)
                    - Cardinality({t \in Tasks : download_tasks[t].failure # "none"})

\* 5 URLs, 2 of them timed out: 5 outcomes, 3 successes
C3_Witness ==
    /\ BatchGathered
    /\ Len(download_results) = 5
    /\ {t \in Tasks : download_tasks[t].failure = "timeout"} = {2, 4}
    /\ download_results = <<TRUE, FALSE, TRUE, FALSE, TRUE>>
    /\ succeeded_count = 3

ImageUnderscore == <<"i","m","a","g","e","_">>

\* the three digits of a sequence number below 100
C4_Number(i) ==
    IF i < 10 THEN <<"0", "0", DigitSeq[i + 1]>>
    ELSE <<"0", DigitSeq[(i \div 10) + 1], DigitSeq[(i % 10) + 1]>>

\* C4: every file opened for the URL at position i of a place's image list is
\* image_ followed by i in three digits and an extension, in the folder of
\* the place, whatever the order of the steps of the downloads; two downloads
\* of one batch never open the same path.
C4_NamedByPosition ==
    /\ \A f \in fs :
          \E ext \in {Jpg, Jpeg, Png, Gif, Webp} :
              f.path = folders[f.place_idx + 1] \o <<"/">> \o ImageUnderscore
                           \o C4_Number(f.position) \o ext
    /\ \A f, g \in fs :
          f.place_idx = g.place_idx /\ f.path = g.path => f.position = g.position
    /\ \A t \in Tasks :
          download_tasks[t].filepath # <<>> =>
              [path |-> download_tasks[t].filepath,
               place_idx |-> IF dl_pc = "gather" THEN place_idx ELSE place_idx - 1,
               position |-> t] \in fs

\* the third download is done before the first has started
C4_Witness ==
    /\ dl_pc = "gather"
    /\ Len(download_tasks) >= 3
    /\ download_tasks[1].pc = "created"
    /\ download_tasks[2].pc = "writing"
    /\ download_tasks[3].result = "True"
    /\ \E f \in fs : f.position = 3 /\ f.place_idx = place_idx

(***************************************************************************)
(* C14: the file of a download is opened after the response.               *)
(***************************************************************************)
\* the index of the place the tasks of download_tasks belong to
C14_Batch == IF dl_pc = "gather" THEN place_idx ELSE place_idx - 1

\* the files of the file system with the name of download t of the batch:
\* image_ and its sequence number, in its folder, with any extension
C14_FilesNamedFor(t) ==
    {f \in fs : \E ext \in {Jpg, Jpeg, Png, Gif, Webp} :
        f.path = ImageFilepath(download_tasks[t].folder_path,
                               download_tasks[t].image_counter, ext)}

\* the request of download t ended without a response of success status
C14_NoResponse(t) ==
    download_tasks[t].failure \in {"client_error", "timeout", "bad_status"}

C6_OwnFolder ==
    /\ \A p, q \in 1..Len(folders) : p # q => folders[p] # folders[q]
    /\ \A f, g \in fs : f.path = g.path => f.place_idx = g.place_idx

====
